---- MODULE Spec2Model ----
(***************************************************************************)
(* Model of the Codified Lemma Utility (src/clu.py): the record store, the *)
(* id allocator, the dependency edges kept inline on each record, the     *)
(* closure queries, and JSON persistence / export / import.                *)
(*                                                                         *)
(* A lemma code is a Python string; it is modelled as the sequence of its *)
(* characters, so that formatting (f"L{n}"), parsing (int(code[1:])) and   *)
(* string ordering (sorted) are computed and not assumed.                  *)
(***************************************************************************)
EXTENDS Integers, Sequences, FiniteSets, TLC

VARIABLES
    lemmas,        \* self.lemmas: code -> record
    code_counter,  \* self.code_counter
    metadata,      \* self.metadata
    disk,          \* content of self.data_file (NoFile when it does not exist)
    now,           \* the last value datetime.now() returned
    last,          \* the last call: its name and what it returned
    issued,        \* history: the codes add_lemma returned, in order
    deleted,       \* history: the codes delete_lemma removed
    retracted,     \* history: the edges <<c, code>> the loop of delete_lemma removed
    restarts,      \* history: the times at which a new process was started
    io,            \* what a write of the data file does (the file system's answer)
    walk           \* the get_dependency_chain call in progress: its local variables

vars == <<lemmas, code_counter, metadata, disk, now, last, issued, deleted, retracted, restarts,
          io, walk>>

----------------------------------------------------------------------------
(* Bounds of the exploration *)

\* readings of the clock (each stamping call reads it once) in Spec
MaxTime == 5
\* readings of the clock in the specifications with files (SpecIO, SpecImport)
MaxTimeIO == 3
\* calls of add_lemma
MaxLemmas == 3
\* records of the stores get_dependency_chain is run on step by step (SpecWalk)
MaxNodes == 3
\* edges of those stores
MaxEdges == 4

(* Program constants *)

\* self.code_counter = 1000
InitialCounter == 1000

\* 'version': '1.0.0'
Version == "1.0.0"

----------------------------------------------------------------------------
(* Strings as character sequences *)

Digit == <<"0", "1", "2", "3", "4", "5", "6", "7", "8", "9">>

DigitChars == {Digit[i] : i \in 1..10}

\* the value of a decimal digit character
DigitVal(c) == CHOOSE v \in 0..9 : Digit[v + 1] = c

\* ord(c) for the characters the model uses
Ord(c) ==
    CASE c = " " -> 32
      [] c = "+" -> 43
      [] c = "-" -> 45
      [] c \in DigitChars -> 48 + DigitVal(c)
      [] c = "L" -> 76
      [] c = "_" -> 95
      [] c = "x" -> 120

\* str(n) for n >= 0
RECURSIVE Str(_)
Str(n) == IF n < 10 THEN <<Digit[n + 1]>> ELSE Str(n \div 10) \o <<Digit[(n % 10) + 1]>>

\* f"L{n}"
Code(n) == <<"L">> \o Str(n)

\* s[1:]
Slice1(s) == IF Len(s) <= 1 THEN <<>> ELSE SubSeq(s, 2, Len(s))

\* s.strip(): int() ignores the whitespace around the number
RECURSIVE LStrip(_)
LStrip(s) == IF s # <<>> /\ s[1] = " " THEN LStrip(Tail(s)) ELSE s

RECURSIVE RStrip(_)
RStrip(s) == IF s # <<>> /\ s[Len(s)] = " " THEN RStrip(SubSeq(s, 1, Len(s) - 1)) ELSE s

\* the digits int() accepts: they start and end with a digit, and single
\* underscores may separate digits
DigitsOK(s) ==
    /\ s # <<>>
    /\ s[1] \in DigitChars
    /\ s[Len(s)] \in DigitChars
    /\ \A i \in 1..Len(s) : s[i] \in DigitChars \cup {"_"}
    /\ \A i \in 1..(Len(s) - 1) : ~(s[i] = "_" /\ s[i + 1] = "_")

RECURSIVE DigitsValue(_, _)
DigitsValue(s, acc) ==
    IF s = <<>> THEN acc
    ELSE IF s[1] = "_" THEN DigitsValue(Tail(s), acc)
    ELSE DigitsValue(Tail(s), 10 * acc + DigitVal(s[1]))

\* int(s): [ok |-> FALSE] stands for ValueError
ParseInt(s) ==
    LET t    == RStrip(LStrip(s))
        sign == IF t # <<>> /\ t[1] \in {"+", "-"} THEN t[1] ELSE ""
        body == IF sign = "" THEN t ELSE Tail(t)
    IN  IF DigitsOK(body)
        THEN [ok |-> TRUE,
              val |-> IF sign = "-" THEN 0 - DigitsValue(body, 0) ELSE DigitsValue(body, 0)]
        ELSE [ok |-> FALSE, val |-> 0]

\* Python's str < str: lexicographic by code point, a proper prefix is smaller
RECURSIVE StrLess(_, _)
StrLess(a, b) ==
    IF b = <<>> THEN FALSE
    ELSE IF a = <<>> THEN TRUE
    ELSE IF Ord(a[1]) # Ord(b[1]) THEN Ord(a[1]) < Ord(b[1])
    ELSE StrLess(Tail(a), Tail(b))

\* sorted(S) for a collection of distinct strings
RECURSIVE SortedSet(_)
SortedSet(S) ==
    IF S = {} THEN <<>>
    ELSE LET m == CHOOSE x \in S : \A y \in S \ {x} : StrLess(x, y)
         IN  <<m>> \o SortedSet(S \ {m})

----------------------------------------------------------------------------
(* Python lists *)

Elems(s) == {s[i] : i \in 1..Len(s)}

\* list.remove(x): drops the first occurrence of x (x is known to occur)
ListRemove(s, x) ==
    LET i == CHOOSE k \in 1..Len(s) : s[k] = x /\ \A j \in 1..(k - 1) : s[j] # x
    IN  SubSeq(s, 1, i - 1) \o SubSeq(s, i + 1, Len(s))

----------------------------------------------------------------------------
(* Files *)

\* a path at which nothing exists
NoFile == [exists |-> FALSE, json |-> FALSE, data |-> << >>]

\* a file that json.load rejects
Garbage == [exists |-> TRUE, json |-> FALSE, data |-> << >>]

\* a file holding the JSON object doc
JsonFile(doc) == [exists |-> TRUE, json |-> TRUE, data |-> doc]

\* data.get(k, default)
Get(data, k, default) == IF k \in DOMAIN data THEN data[k] ELSE default

----------------------------------------------------------------------------
(* Persistence *)

\* a slip: the counter is left out of the dumped dictionary
saveWithoutCounter(m, c, l) == JsonFile([metadata |-> m, lemmas |-> l])

\* the dictionary save() dumps
SaveDoc(m, c, l) == [metadata |-> m, code_counter |-> c, lemmas |-> l]

\* what the file system does with a write of the data file: it succeeds, open()
\* raises (the file is left as it was), or the dump raises after open()
\* truncated the file (what is left is no JSON document)
IOOutcomes == {"ok", "open raises", "dump raises"}

\* the data file after save(): either exception is caught
save(m, c, l) ==
    CASE io = "ok"          -> JsonFile(SaveDoc(m, c, l))
      [] io = "open raises" -> disk
      [] io = "dump raises" -> Garbage

\* the instance __init__ builds at time t, before it calls load()
Fresh(t) ==
    [lemmas       |-> << >>,
     code_counter |-> InitialCounter,
     metadata     |-> [created |-> t, last_modified |-> t, version |-> Version]]

\* a slip: the store is emptied before the file is read
LoadClearsFirst(st, f) ==
    IF ~f.exists THEN [ret |-> FALSE, st |-> st]
    ELSE IF ~f.json THEN [ret |-> FALSE, st |-> [st EXCEPT !.lemmas = << >>]]
    ELSE [ret |-> TRUE,
          st  |-> [lemmas       |-> Get(f.data, "lemmas", << >>),
                   code_counter |-> Get(f.data, "code_counter", st.code_counter),
                   metadata     |-> Get(f.data, "metadata", st.metadata)]]

\* load() of an instance st whose data file is f: the value returned and the
\* instance afterwards
Load(st, f) ==
    IF ~f.exists \/ ~f.json THEN [ret |-> FALSE, st |-> st]
    ELSE [ret |-> TRUE,
          st  |-> [lemmas       |-> Get(f.data, "lemmas", << >>),
                   code_counter |-> Get(f.data, "code_counter", st.code_counter),
                   metadata     |-> Get(f.data, "metadata", st.metadata)]]

\* the dictionary export_all(format='json') dumps
ExportDoc(m, l) == [metadata |-> m, lemmas |-> l]

\* a slip: > where the code has >=
BumpCounterStrict(counter, code) ==
    LET num == ParseInt(Slice1(code))
    IN  IF num.ok /\ num.val > counter THEN num.val + 1 ELSE counter

\* the counter after the "Update counter if needed" block for a merged code
BumpCounter(counter, code) ==
    LET num == ParseInt(Slice1(code))
    IN  IF num.ok /\ num.val >= counter THEN num.val + 1 ELSE counter

\* the loop of import_from_json over the codes in todo (in sorted order)
RECURSIVE ImportLoop(_, _, _)
ImportLoop(st, imported, todo) ==
    IF todo = << >> THEN st
    ELSE LET code == Head(todo)
         IN  IF code \in DOMAIN st.lemmas THEN ImportLoop(st, imported, Tail(todo))
             ELSE ImportLoop(
                    [st EXCEPT
                       !.lemmas = [c \in DOMAIN st.lemmas \cup {code} |->
                                     IF c = code THEN imported[code] ELSE st.lemmas[c]],
                       !.code_counter = BumpCounter(@, code)],
                    imported, Tail(todo))

\* import_from_json of the file f into the instance st, up to the save
Import(st, f) ==
    IF ~f.exists \/ ~f.json THEN [ret |-> FALSE, st |-> st]
    ELSE LET imported == Get(f.data, "lemmas", << >>)
         IN  [ret |-> TRUE, st |-> ImportLoop(st, imported, SortedSet(DOMAIN imported))]

----------------------------------------------------------------------------
(* Record Store *)

\* the keyword arguments of a call, as the dictionary of those that were given
Given(kw, k) == k \in DOMAIN kw

\* `value or default` for a string argument (None and '' are falsy)
OrStr(kw, k, d) == IF Given(kw, k) /\ kw[k] # "" THEN kw[k] ELSE d

\* `value or default` for a list argument (None and [] are falsy)
OrList(kw, k, d) == IF Given(kw, k) /\ kw[k] # << >> THEN kw[k] ELSE d

\* the record add_lemma stores
NewLemma(kw, t) ==
    [statement    |-> kw.statement,
     proof        |-> OrStr(kw, "proof", ""),
     tags         |-> OrList(kw, "tags", << >>),
     category     |-> OrStr(kw, "category", "general"),
     notes        |-> OrStr(kw, "notes", ""),
     dependencies |-> << >>,
     created      |-> t,
     modified     |-> t]

\* a slip: the code is numbered by the size of the store
NextCodeFromSize(counter) == Code(InitialCounter + Cardinality(DOMAIN lemmas))

\* the code add_lemma allocates
NextCode(counter) == Code(counter)

add_lemma(kw) ==
    LET code == NextCode(code_counter)
        t    == now + 1
    IN  /\ now' = t
        /\ code_counter' = code_counter + 1
        /\ lemmas' = [c \in DOMAIN lemmas \cup {code} |->
                        IF c = code THEN NewLemma(kw, t) ELSE lemmas[c]]
        /\ metadata' = [metadata EXCEPT !.last_modified = t]
        /\ disk' = save(metadata', code_counter', lemmas')
        /\ last' = [op |-> "add_lemma", ret |-> code]
        /\ issued' = Append(issued, code)
        /\ UNCHANGED <<deleted, retracted, restarts, io, walk>>

AllowedFields == {"statement", "proof", "tags", "category", "notes"}

\* a slip: the list of allowed fields is not consulted
UpdatedAnyField(rec, kw) ==
    [f \in DOMAIN rec |-> IF f \in DOMAIN kw THEN kw[f] ELSE rec[f]]

\* the record after the loop over kwargs of update_lemma
Updated(rec, kw) ==
    [f \in DOMAIN rec |-> IF f \in AllowedFields /\ f \in DOMAIN kw THEN kw[f] ELSE rec[f]]

update_lemma(code, kw) ==
    IF code \notin DOMAIN lemmas
    THEN /\ last' = [op |-> "update_lemma", ret |-> FALSE]
         /\ UNCHANGED <<lemmas, code_counter, metadata, disk, now, issued, deleted, retracted, restarts, io, walk>>
    ELSE /\ now' = now + 1
         /\ lemmas' = [lemmas EXCEPT
                         ![code] = [Updated(lemmas[code], kw) EXCEPT !.modified = now + 1]]
         /\ metadata' = [metadata EXCEPT !.last_modified = now + 1]
         /\ disk' = save(metadata', code_counter, lemmas')
         /\ last' = [op |-> "update_lemma", ret |-> TRUE]
         /\ UNCHANGED <<code_counter, issued, deleted, retracted, restarts, io, walk>>

\* a slip: the loop over the other records is left out
RetractNothing(l, code) == l

\* a slip: the records that list code are dropped with it
RetractDependents(l, code) ==
    [c \in {d \in DOMAIN l : d = code \/ code \notin Elems(l[d].dependencies)} |-> l[c]]

\* the loop of delete_lemma: code is retracted from each record that lists it
Retract(l, code) ==
    [c \in DOMAIN l |->
        IF code \in Elems(l[c].dependencies)
        THEN [l[c] EXCEPT !.dependencies = ListRemove(@, code)]
        ELSE l[c]]

\* a slip: the record is not removed
DelNothing(l, code) == l

\* del self.lemmas[code]
Del(l, code) == [c \in DOMAIN l \ {code} |-> l[c]]

delete_lemma(code) ==
    IF code \notin DOMAIN lemmas
    THEN /\ last' = [op |-> "delete_lemma", ret |-> FALSE]
         /\ UNCHANGED <<lemmas, code_counter, metadata, disk, now, issued, deleted, retracted, restarts, io, walk>>
    ELSE /\ now' = now + 1
         /\ lemmas' = Del(Retract(lemmas, code), code)
         /\ metadata' = [metadata EXCEPT !.last_modified = now + 1]
         /\ disk' = save(metadata', code_counter, lemmas')
         /\ last' = [op |-> "delete_lemma", ret |-> TRUE]
         /\ deleted' = deleted \cup {code}
         /\ retracted' = retracted \cup
                {<<c, code>> : c \in {d \in DOMAIN lemmas \ {code} : code \in Elems(lemmas[d].dependencies)}}
         /\ UNCHANGED <<code_counter, issued, restarts, io, walk>>

----------------------------------------------------------------------------
(* Dependency Graph *)

\* a slip: depends_on is not looked up
InsertsUnchecked(l, code, depends_on) ==
    /\ code \in DOMAIN l
    /\ depends_on \notin Elems(l[code].dependencies)

\* a slip: an edge that is there already is appended again
InsertsAgain(l, code, depends_on) ==
    /\ code \in DOMAIN l
    /\ depends_on \in DOMAIN l

\* the condition under which add_dependency touches the store
Inserts(l, code, depends_on) ==
    /\ code \in DOMAIN l
    /\ depends_on \in DOMAIN l
    /\ depends_on \notin Elems(l[code].dependencies)

\* a slip: both arguments are appended
WithEdgeAndSelf(l, code, depends_on, t) ==
    [l EXCEPT ![code] = [@ EXCEPT !.dependencies = Append(Append(@, depends_on), code),
                                  !.modified = t]]

\* the lemmas after add_dependency appended the edge
WithEdge(l, code, depends_on, t) ==
    [l EXCEPT ![code] = [@ EXCEPT !.dependencies = Append(@, depends_on), !.modified = t]]

add_dependency(code, depends_on) ==
    /\ last' = [op  |-> "add_dependency",
                ret |-> (code \in DOMAIN lemmas /\ depends_on \in DOMAIN lemmas)]
    /\ IF Inserts(lemmas, code, depends_on)
       THEN /\ now' = now + 1
            /\ lemmas' = WithEdge(lemmas, code, depends_on, now + 1)
            /\ disk' = save(metadata, code_counter, lemmas')
            /\ UNCHANGED <<code_counter, metadata, issued, deleted, retracted, restarts, io, walk>>
       ELSE UNCHANGED <<lemmas, code_counter, metadata, disk, now, issued, deleted, retracted, restarts, io, walk>>

\* a slip: the whole list is emptied
WithoutEdgeCleared(l, code, depends_on) ==
    [l EXCEPT ![code] = [@ EXCEPT !.dependencies = << >>]]

\* self.lemmas[code]['dependencies'].remove(depends_on)
WithoutEdge(l, code, depends_on) ==
    [l EXCEPT ![code] = [@ EXCEPT !.dependencies = ListRemove(@, depends_on)]]

remove_dependency(code, depends_on) ==
    IF code \in DOMAIN lemmas /\ depends_on \in Elems(lemmas[code].dependencies)
    THEN /\ lemmas' = WithoutEdge(lemmas, code, depends_on)
         /\ disk' = save(metadata, code_counter, lemmas')
         /\ last' = [op |-> "remove_dependency", ret |-> TRUE]
         /\ UNCHANGED <<code_counter, metadata, now, issued, deleted, retracted, restarts, io, walk>>
    ELSE /\ last' = [op |-> "remove_dependency", ret |-> FALSE]
         /\ UNCHANGED <<lemmas, code_counter, metadata, disk, now, issued, deleted, retracted, restarts, io, walk>>

\* a slip: the dependencies of the current record are not queued
ExtendNothing(l, to_process, current) == to_process

\* to_process.extend(self.lemmas[current]['dependencies'])
Extend(l, to_process, current) == to_process \o l[current].dependencies

\* the while loop of get_dependency_chain: to_process is a stack, chain a set;
\* raised stands for the KeyError of self.lemmas[current]
RECURSIVE Walk(_, _, _)
Walk(l, chain, to_process) ==
    IF to_process = << >> THEN [raised |-> FALSE, chain |-> chain]
    ELSE LET current == to_process[Len(to_process)]
             rest    == SubSeq(to_process, 1, Len(to_process) - 1)
         IN  IF current \in chain THEN Walk(l, chain, rest)
             ELSE IF current \notin DOMAIN l
                  THEN [raised |-> TRUE, chain |-> chain \cup {current}]
                  ELSE Walk(l, chain \cup {current}, Extend(l, rest, current))

\* a slip: the origin is not discarded
ChainResultWithOrigin(chain, code) == SortedSet(chain)

\* chain.discard(code); return sorted(list(chain))
ChainResult(chain, code) == SortedSet(chain \ {code})

\* get_dependency_chain(code) on the lemmas l
DependencyChain(l, code) ==
    IF code \notin DOMAIN l THEN [raised |-> FALSE, value |-> << >>]
    ELSE LET w == Walk(l, {}, <<code>>)
         IN  IF w.raised THEN [raised |-> TRUE, value |-> << >>]
             ELSE [raised |-> FALSE, value |-> ChainResult(w.chain, code)]

get_dependency_chain(code) == DependencyChain(lemmas, code)

\* a slip: the test follows the edges transitively
IsDependentTransitive(l, c, code) == code \in Elems(DependencyChain(l, c).value)

\* the test of the loop of get_dependents
IsDependent(l, c, code) == code \in Elems(l[c].dependencies)

\* get_dependents(code) on the lemmas l
Dependents(l, code) == SortedSet({c \in DOMAIN l : IsDependent(l, c, code)})

get_dependents(code) == Dependents(lemmas, code)

\* no get_dependency_chain call is in progress
NoWalk ==
    [pc |-> "idle", code |-> << >>, chain |-> {}, to_process |-> << >>, expanded |-> << >>,
     result |-> << >>]

\* a slip: the guard of the loop never finds a code visited
VisitedNever(chain, current) == FALSE

\* if current in chain
Visited(chain, current) == current \in chain

\* get_dependency_chain(code), statement by statement. The call begins: an
\* absent code returns [] at once, otherwise chain and to_process are set up
\* (expanded is history: the codes whose dependencies were queued, in order)
chain_begin(code) ==
    /\ walk.pc # "loop"
    /\ walk' = IF code \notin DOMAIN lemmas
               THEN [NoWalk EXCEPT !.pc = "done", !.code = code]
               ELSE [NoWalk EXCEPT !.pc = "loop", !.code = code, !.to_process = <<code>>]
    /\ UNCHANGED <<lemmas, code_counter, metadata, disk, now, last, issued, deleted, retracted,
                   restarts, io>>

\* one iteration of the while loop; self.lemmas[current] raises KeyError
\* when current is no key
chain_iterate ==
    /\ walk.pc = "loop"
    /\ walk.to_process # << >>
    /\ LET current == walk.to_process[Len(walk.to_process)]
           rest    == SubSeq(walk.to_process, 1, Len(walk.to_process) - 1)
       IN  walk' = IF Visited(walk.chain, current)
                   THEN [walk EXCEPT !.to_process = rest]
                   ELSE IF current \notin DOMAIN lemmas
                        THEN [walk EXCEPT !.pc = "raised", !.to_process = rest,
                                          !.chain = @ \cup {current}]
                        ELSE [walk EXCEPT !.to_process = Extend(lemmas, rest, current),
                                          !.chain = @ \cup {current},
                                          !.expanded = Append(@, current)]
    /\ UNCHANGED <<lemmas, code_counter, metadata, disk, now, last, issued, deleted, retracted,
                   restarts, io>>

\* the loop is left: chain.discard(code); return sorted(list(chain))
chain_return ==
    /\ walk.pc = "loop"
    /\ walk.to_process = << >>
    /\ walk' = [walk EXCEPT !.pc = "done", !.result = ChainResult(walk.chain, walk.code)]
    /\ UNCHANGED <<lemmas, code_counter, metadata, disk, now, last, issued, deleted, retracted,
                   restarts, io>>

----------------------------------------------------------------------------
(* Search *)

\* the characters of the texts the records of the model hold
Chars(s) ==
    CASE s = ""              -> << >>
      [] s = "n+0=n"         -> <<"n", "+", "0", "=", "n">>
      [] s = "n*1=n"         -> <<"n", "*", "1", "=", "n">>
      [] s = "a+b=b+a"       -> <<"a", "+", "b", "=", "b", "+", "a">>
      [] s = "commutativity" -> <<"c", "o", "m", "m", "u", "t", "a", "t", "i", "v", "i", "t", "y">>
      [] s = "classic"       -> <<"c", "l", "a", "s", "s", "i", "c">>
      [] s = "checked"       -> <<"c", "h", "e", "c", "k", "e", "d">>
      [] s = "by induction"  -> <<"b", "y", " ", "i", "n", "d", "u", "c", "t", "i", "o", "n">>

UpperCase ==
    <<"A", "B", "C", "D", "E", "F", "G", "H", "I", "J", "K", "L", "M",
      "N", "O", "P", "Q", "R", "S", "T", "U", "V", "W", "X", "Y", "Z">>

LowerCase ==
    <<"a", "b", "c", "d", "e", "f", "g", "h", "i", "j", "k", "l", "m",
      "n", "o", "p", "q", "r", "s", "t", "u", "v", "w", "x", "y", "z">>

\* str.lower() of one character
LowerChar(ch) ==
    IF \E i \in 1..26 : UpperCase[i] = ch
    THEN LowerCase[CHOOSE i \in 1..26 : UpperCase[i] = ch]
    ELSE ch

\* str.lower()
Lower(t) == [i \in 1..Len(t) |-> LowerChar(t[i])]

\* f"{lemma['statement']} {lemma['proof']} {lemma.get('notes', '')}"
SearchText(rec) == Chars(rec.statement) \o <<" ">> \o Chars(rec.proof) \o <<" ">> \o Chars(rec.notes)

\* q in t, for strings
Contains(t, q) ==
    \E i \in 0..(Len(t) - Len(q)) : \A k \in 1..Len(q) : t[i + k] = q[k]

\* the depth of open groups after each character of the pattern p
RECURSIVE Depth(_, _)
Depth(p, n) ==
    IF n = 0 THEN 0
    ELSE Depth(p, n - 1) + (IF p[n] = "(" THEN 1 ELSE IF p[n] = ")" THEN 0 - 1 ELSE 0)

\* re.compile accepts the pattern p (of literal characters, '.', '(' and ')'):
\* no group is closed that was not opened, none is left open
Compiles(p) ==
    /\ \A n \in 1..Len(p) : Depth(p, n) >= 0
    /\ Depth(p, Len(p)) = 0

\* the pattern p without its group marks: a sequence of literals and '.'
Atoms(p) == SelectSeq(p, LAMBDA ch : ch \notin {"(", ")"})

\* re.search(p, t, re.IGNORECASE): "error" stands for re.error being raised
ReSearch(p, t) ==
    IF ~Compiles(p) THEN "error"
    ELSE LET a == Atoms(p)
         IN  IF \E i \in 0..(Len(t) - Len(a)) :
                    \A k \in 1..Len(a) : a[k] = "." \/ LowerChar(a[k]) = LowerChar(t[i + k])
             THEN "match" ELSE "none"

\* a slip: a pattern that does not compile rejects the record
RegexPassesStrict(p, t) == ReSearch(p, t) = "match"

\* the try block of search: the record goes on unless re.search returned no
\* match; re.error is caught and passed over
RegexPasses(p, t) == ReSearch(p, t) # "none"

\* if category and lemma['category'] != category: continue
CategoryPasses(rec, a) ==
    ~(Given(a, "category") /\ a.category # "" /\ rec.category # a.category)

\* if has_proof is not None: ... if has_lemma_proof != has_proof: continue
ProofPasses(rec, a) ==
    Given(a, "has_proof") => ((rec.proof # "") = a.has_proof)

\* if tags: if not all(tag in lemma['tags'] for tag in tags): continue
TagsPass(rec, a) ==
    (Given(a, "tags") /\ a.tags # << >>) => Elems(a.tags) \subseteq Elems(rec.tags)

\* if query: ... (regex defaults to False)
QueryPasses(rec, a) ==
    (Given(a, "query") /\ a.query # << >>) =>
        IF Given(a, "regex") /\ a.regex
        THEN RegexPasses(a.query, SearchText(rec))
        ELSE Contains(Lower(SearchText(rec)), Lower(a.query))

\* search(**a) on the lemmas l: the dictionary of the records that pass
Search(l, a) ==
    [c \in {d \in DOMAIN l : /\ CategoryPasses(l[d], a)
                              /\ ProofPasses(l[d], a)
                              /\ TagsPass(l[d], a)
                              /\ QueryPasses(l[d], a)} |-> l[c]]

search(a) ==
    /\ last' = [op |-> "search", ret |-> Search(lemmas, a), args |-> a]
    /\ UNCHANGED <<lemmas, code_counter, metadata, disk, now, issued, deleted, retracted,
                   restarts, io, walk>>

----------------------------------------------------------------------------
(* Textual export *)

\* one `output += ...` of an exporter: label, then the items (each between
\* open and close) joined by sep, then tail; field is the key of the record
\* the statement reads
Entry(field, label, items, open, close, sep, tail) ==
    [field |-> field, label |-> label, items |-> items, open |-> open, close |-> close,
     sep |-> sep, tail |-> tail]

\* a line made of a label and one value
Line(field, label, value, tail) == Entry(field, label, <<value>>, "", "", "", tail)

\* `if cond: output += ...`
When(cond, entry) == IF cond THEN <<entry>> ELSE << >>

\* _export_text
export_text(code, lemma) ==
    << Line("code", "Code: ", code, "\n"),
       Line("category", "Category: ", lemma.category, "\n"),
       Line("statement", "Statement: ", lemma.statement, "\n") >>
    \o When(lemma.proof # "", Line("proof", "Proof: ", lemma.proof, "\n"))
    \o When(lemma.tags # << >>, Entry("tags", "Tags: ", lemma.tags, "", "", ", ", "\n"))
    \o When(lemma.notes # "", Line("notes", "Notes: ", lemma.notes, "\n"))
    \o When(lemma.dependencies # << >>,
            Entry("dependencies", "Depends on: ", lemma.dependencies, "", "", ", ", "\n"))
    \o << Line("created", "Created: ", lemma.created, "\n"),
          Line("modified", "Modified: ", lemma.modified, "\n") >>

\* the character that opens and closes a tag in Markdown (a grave accent,
\* written out because the character cannot stand in a string here)
Backtick == "<grave accent>"

\* _export_markdown (a dependency dep is rendered [dep](#dep))
export_markdown(code, lemma) ==
    << Line("code", "## ", code, "\n\n"),
       Line("category", "**Category:** ", lemma.category, "\n\n"),
       Line("statement", "**Statement:** ", lemma.statement, "\n\n") >>
    \o When(lemma.proof # "", Line("proof", "**Proof:**\n\n", lemma.proof, "\n\n"))
    \o When(lemma.tags # << >>, Entry("tags", "**Tags:** ", lemma.tags, Backtick, Backtick, ", ", "\n\n"))
    \o When(lemma.notes # "", Line("notes", "**Notes:** ", lemma.notes, "\n\n"))
    \o When(lemma.dependencies # << >>,
            Entry("dependencies", "**Dependencies:** ", lemma.dependencies, "[", "](#)", ", ",
                  "\n\n"))
    \o << Line("created", "*Created: ", lemma.created, "*\n\n"),
          Line("modified", "*Modified: ", lemma.modified, "*\n\n") >>

\* _export_latex: no statement of it reads lemma['dependencies']
export_latex(code, lemma) ==
    << Line("code", "\\begin{lemma}[", code, "]\n"),
       Line("code", "\\label{lemma:", code, "}\n"),
       Line("statement", "", lemma.statement, "\n\\end{lemma}\n\n") >>
    \o When(lemma.proof # "",
            Line("proof", "\\begin{proof}\n", lemma.proof, "\n\\end{proof}\n\n"))
    \o When(lemma.tags # << >>, Entry("tags", "% Tags: ", lemma.tags, "", "", ", ", "\n"))
    \o When(lemma.notes # "", Line("notes", "% Notes: ", lemma.notes, "\n"))

\* the dictionary export_lemma(code, 'json') dumps: the record under its code,
\* every key of it, the empty ones too
LemmaDoc(code, lemma) == [c \in {code} |-> lemma]

\* the dispatch of export_lemma: a format that is not known is rendered as
\* text
Rendered(code, lemma, format) ==
    CASE format = "text"     -> export_text(code, lemma)
      [] format = "markdown" -> export_markdown(code, lemma)
      [] format = "latex"    -> export_latex(code, lemma)
      [] format = "json"     -> LemmaDoc(code, lemma)
      [] OTHER               -> export_text(code, lemma)

\* export_lemma(code, format): None (found is FALSE) when code is no key
export_lemma(code, format) ==
    /\ last' = [op     |-> "export_lemma",
                found  |-> code \in DOMAIN lemmas,
                ret    |-> IF code \in DOMAIN lemmas
                           THEN Rendered(code, lemmas[code], format) ELSE << >>,
                code   |-> code,
                format |-> format]
    /\ UNCHANGED <<lemmas, code_counter, metadata, disk, now, issued, deleted, retracted,
                   restarts, io, walk>>

----------------------------------------------------------------------------
(* Export, import, restart *)

\* the default data_file of the instance
DataFile == "lemmas.json"

\* filename=None
NoFilename == "None"

\* what export_all puts before the records: the Markdown title block (with
\* the time t of the call and the number n of records), the LaTeX preamble
Header(format, t, n) ==
    CASE format = "markdown" ->
            << Line("title", "# Codified Lemma Collection", "", "\n\n"),
               Line("generated", "Generated: ", t, "\n\n"),
               Line("total", "Total Lemmas: ", n, "\n\n"),
               Line("rule", "---", "", "\n\n") >>
      [] format = "latex" ->
            << Line("preamble", "\\documentclass{article}", "", "\n"),
               Line("preamble", "\\usepackage{amsthm}", "", "\n"),
               Line("preamble", "\\newtheorem{lemma}{Lemma}", "", "\n"),
               Line("preamble", "\\begin{document}", "", "\n\n") >>
      [] OTHER -> << >>

\* the records named by codes, each rendered by export_lemma and followed by
\* a newline
RECURSIVE Body(_, _, _)
Body(l, codes, format) ==
    IF codes = << >> THEN << >>
    ELSE Rendered(codes[1], l[codes[1]], format)
         \o << Line("end", "", "", "\n") >>
         \o Body(l, Tail(codes), format)

\* what export_all puts after the records
Footer(format) ==
    IF format = "latex" THEN << Line("preamble", "\\end{document}", "", "\n") >> ELSE << >>

\* the content export_all builds at time t: the dumped dictionary for 'json',
\* otherwise the records in the order of their sorted codes
Content(m, l, format, t) ==
    IF format = "json" THEN ExportDoc(m, l)
    ELSE Header(format, t, Cardinality(DOMAIN l))
         \o Body(l, SortedSet(DOMAIN l), format)
         \o Footer(format)

\* a file that holds content: only the 'json' content is a JSON document
ContentFile(format, content) == IF format = "json" THEN JsonFile(content) ELSE Garbage

\* the data file after export_all(format, filename): written only when a
\* filename is given and it names the data file; open() raising leaves the
\* file, write() raising leaves it truncated
Exported(format, filename, content) ==
    IF filename # DataFile THEN disk
    ELSE CASE io = "ok"          -> ContentFile(format, content)
           [] io = "open raises" -> disk
           [] io = "dump raises" -> Garbage

\* the content is the empty string: a textual format with no header, on a
\* store without records
EmptyContent(format, content) == format # "json" /\ content = << >>

\* export_all(format, filename): the content is built (the Markdown title
\* block reads the clock), written to the file when a filename is given, and
\* returned; an error of the write is not caught and raises to the caller
\* (a write of the empty string writes no byte and cannot fail)
export_all(format, filename) ==
    LET t       == IF format = "markdown" THEN now + 1 ELSE now
        content == Content(metadata, lemmas, format, t)
        raised  == /\ filename # NoFilename
                   /\ \/ io = "open raises"
                      \/ io = "dump raises" /\ ~EmptyContent(format, content)
    IN  /\ now' = t
        /\ disk' = Exported(format, filename, content)
        /\ last' = [op       |-> "export_all",
                    raised   |-> raised,
                    ret      |-> IF raised THEN << >> ELSE content,
                    format   |-> format,
                    filename |-> filename]
        /\ UNCHANGED <<lemmas, code_counter, metadata, issued, deleted, retracted, restarts,
                       io, walk>>

\* the instance: self.lemmas, self.code_counter, self.metadata
Instance == [lemmas |-> lemmas, code_counter |-> code_counter, metadata |-> metadata]

import_from_json(f) ==
    LET r == Import(Instance, f)
    IN  /\ last' = [op |-> "import_from_json", ret |-> r.ret]
        /\ lemmas' = r.st.lemmas
        /\ code_counter' = r.st.code_counter
        /\ disk' = IF r.ret THEN save(metadata, code_counter', lemmas') ELSE disk
        /\ UNCHANGED <<metadata, now, issued, deleted, retracted, restarts, io, walk>>

\* a call of save() from outside: True when the write went through
save_call ==
    /\ disk' = save(metadata, code_counter, lemmas)
    /\ last' = [op |-> "save", ret |-> (io = "ok")]
    /\ UNCHANGED <<lemmas, code_counter, metadata, now, issued, deleted, retracted, restarts, io, walk>>

\* a call of load() on the running instance
load ==
    LET r == Load(Instance, disk)
    IN  /\ last' = [op |-> "load", ret |-> r.ret]
        /\ lemmas' = r.st.lemmas
        /\ code_counter' = r.st.code_counter
        /\ metadata' = r.st.metadata
        /\ UNCHANGED <<disk, now, issued, deleted, retracted, restarts, io, walk>>

\* the file system changes its answer to writes (permissions, free space)
SetIO(w) ==
    /\ w # io
    /\ io' = w
    /\ UNCHANGED <<lemmas, code_counter, metadata, disk, now, last, issued, deleted, retracted,
                   restarts, walk>>

\* a new process: CodedLemmaUtility(data_file) on the same data file
Restart ==
    LET r == Load(Fresh(now + 1), disk)
    IN  /\ now' = now + 1
        /\ lemmas' = r.st.lemmas
        /\ code_counter' = r.st.code_counter
        /\ metadata' = r.st.metadata
        /\ last' = [op |-> "__init__", ret |-> r.ret]
        /\ restarts' = restarts \cup {now + 1}
        /\ UNCHANGED <<disk, issued, deleted, retracted, io, walk>>

----------------------------------------------------------------------------
(* Inputs *)

\* add_lemma(statement) with every optional argument left out
PlainArgs == { [statement |-> "n+0=n"] }

\* the arguments of add_lemma that are tried
CreateArgs ==
    PlainArgs \cup
    { [statement |-> "a+b=b+a", proof |-> "commutativity", tags |-> <<"arithmetic">>,
       category |-> "algebra", notes |-> "classic"] }

\* the keyword arguments of update_lemma that are tried: an allowed field
\* together with fields that are not in the allowed list
UpdateArgs ==
    { [statement |-> "n*1=n", dependencies |-> <<Code(InitialCounter)>>, created |-> 0] }

\* keyword arguments of update_lemma over the allowed fields and others: none
\* at all, two allowed fields, allowed fields with fields of the record that
\* are not allowed and a name that is no field
FieldArgs ==
    UpdateArgs \cup
    { << >>,
      [proof |-> "by induction", tags |-> <<"peano">>],
      [notes |-> "checked", dependencies |-> << >>, created |-> 0],
      [category |-> "algebra", notes |-> "", modified |-> 0, id |-> "L0"] }

\* the queries of search that are tried as substrings: one found in a proof,
\* one found but for its capitals, one found nowhere
PlainQueries == { <<"c", "o", "m", "m">>, <<"B", "+", "A">>, <<"x">> }

\* the queries of search that are tried as patterns: two that compile (a
\* wildcard with capitals, a group) and two that do not
Patterns ==
    { <<"N", ".", "0">>, <<"(", "c", "l", "a", "s", "s", ")", "i", "c">>,
      <<"c", "o", "m", "m", "(">>, <<")", "n">> }

\* the ways an optional argument of search is given: not at all, or each value
Optional(k, values) == {<< >>} \cup {[x \in {k} |-> v] : v \in values}

\* the keyword arguments of search that are tried: every combination of a
\* query, a category, has_proof and a tag, and three bundles with an empty
\* category, an empty list of tags and two tags
SearchArgs ==
    { q @@ c @@ h @@ t :
        q \in {<< >>} \cup {[query |-> x] : x \in PlainQueries}
                      \cup {[query |-> x, regex |-> TRUE] : x \in Patterns},
        c \in Optional("category", {"algebra"}),
        h \in Optional("has_proof", {TRUE, FALSE}),
        t \in Optional("tags", {<<"arithmetic">>}) }
    \cup { [category |-> "", query |-> << >>, regex |-> TRUE],
           [tags |-> << >>, has_proof |-> FALSE],
           [tags |-> <<"arithmetic", "peano">>] }

\* the formats export_lemma is called with: the three textual ones and one
\* that is not known
Formats == {"text", "markdown", "latex", "json", "html"}

\* the filename arguments of export_all that are tried: none, a file of its
\* own, the data file
Filenames == {NoFilename, "collection.out", DataFile}

\* a code add_lemma never allocates
AbsentCode == Code(InitialCounter - 1)

\* the codes passed to the calls: the keys of the store, the codes allocated
\* so far, and one that never exists
CodeArgs == DOMAIN lemmas \cup Elems(issued) \cup {AbsentCode}

\* a record of an imported document
Foreign(statement, deps) ==
    [statement |-> statement, proof |-> "", tags |-> << >>, category |-> "general",
     notes |-> "", dependencies |-> deps, created |-> 0, modified |-> 0]

\* a file whose lemmas have a code add_lemma allocates too and a code without number
ForeignFile ==
    JsonFile([lemmas |-> (Code(InitialCounter + 1) :> Foreign("foreign", << >>))
                         @@ (<<"L", "x">> :> Foreign("no number", << >>))])

\* a file whose lemmas have the first code add_lemma allocates and a code whose
\* number int() reads through an underscore; the second depends on the first
UnderscoreFile ==
    JsonFile([lemmas |-> (Code(InitialCounter) :> Foreign("other", << >>))
                         @@ (<<"L", "1", "_", "0", "0", "4">> :>
                               Foreign("underscore", <<Code(InitialCounter)>>))])

\* a file whose only lemma depends on a code that is in no store
DanglingFile ==
    JsonFile([lemmas |-> (Code(2 * InitialCounter) :> Foreign("dangling", <<AbsentCode>>))])

\* a file whose only lemma lists the first code add_lemma allocates twice
DuplicateFile ==
    JsonFile([lemmas |-> (Code(2 * InitialCounter) :>
                            Foreign("twice", <<Code(InitialCounter), Code(InitialCounter)>>))])

\* files of the persisted shape whose dependencies the importing store may
\* not be able to resolve
MergeFiles == {UnderscoreFile, DanglingFile, DuplicateFile}

\* the files import_from_json is called on: a missing one, a malformed one,
\* one without the key 'lemmas', and the two above
ImportFiles ==
    { NoFile,
      Garbage,
      JsonFile([metadata |-> [created |-> 0, last_modified |-> 0, version |-> Version]]),
      ForeignFile,
      UnderscoreFile }

\* the files import_from_json is called on where every other call is made too
FewFiles == {Garbage, ForeignFile}

----------------------------------------------------------------------------
(* Specifications *)

Init ==
    /\ lemmas = << >>
    /\ code_counter = InitialCounter
    /\ metadata = [created |-> 0, last_modified |-> 0, version |-> Version]
    /\ disk = NoFile
    /\ now = 0
    /\ last = [op |-> "__init__", ret |-> FALSE]
    /\ issued = << >>
    /\ deleted = {}
    /\ retracted = {}
    /\ restarts = {}
    /\ io = "ok"
    /\ walk = NoWalk

\* the calls, with the clock bounded by T

Create(T, Args) ==
    /\ now < T
    /\ Len(issued) < MaxLemmas
    /\ \E kw \in Args : add_lemma(kw)

Update(T) ==
    \E code \in CodeArgs, kw \in UpdateArgs :
        /\ code \in DOMAIN lemmas => now < T
        /\ update_lemma(code, kw)

UpdateFields(T) ==
    \E code \in CodeArgs, kw \in FieldArgs :
        /\ code \in DOMAIN lemmas => now < T
        /\ update_lemma(code, kw)

Delete(T) ==
    \E code \in CodeArgs :
        /\ code \in DOMAIN lemmas => now < T
        /\ delete_lemma(code)

AddDependency(T) ==
    \E code \in CodeArgs, depends_on \in CodeArgs :
        /\ Inserts(lemmas, code, depends_on) => now < T
        /\ add_dependency(code, depends_on)

RemoveDependency ==
    \E code \in CodeArgs, depends_on \in CodeArgs : remove_dependency(code, depends_on)

ExportAll(T) ==
    \E format \in Formats, filename \in Filenames :
        /\ format = "markdown" => now < T
        /\ export_all(format, filename)

ImportJson(Files) == \E f \in Files : import_from_json(f)

NewProcess(T) == now < T /\ Restart

ChainBegin == \E code \in CodeArgs : chain_begin(code)

ChainIterate == chain_iterate

ChainReturn == chain_return

SearchCall == \E a \in SearchArgs : search(a)

ExportLemma == \E code \in CodeArgs, format \in Formats : export_lemma(code, format)

SaveCall == save_call

LoadCall == load

FileSystem == \E w \in IOOutcomes : SetIO(w)

\* the store under create / update / delete / add_dependency / remove_dependency
Next ==
    \/ Create(MaxTime, PlainArgs)
    \/ Update(MaxTime)
    \/ Delete(MaxTime)
    \/ AddDependency(MaxTime)
    \/ RemoveDependency

Spec == Init /\ [][Next]_vars

\* the store with its data file: every mutating call, import and restart
NextIO ==
    \/ Create(MaxTimeIO, CreateArgs)
    \/ Update(MaxTimeIO)
    \/ Delete(MaxTimeIO)
    \/ AddDependency(MaxTimeIO)
    \/ RemoveDependency
    \/ ImportJson(FewFiles)
    \/ NewProcess(MaxTimeIO)

SpecIO == Init /\ [][NextIO]_vars

\* the store under create / delete / add_dependency, with exports (to no file,
\* to a file, over the data file), new processes and failing writes
NextExport ==
    \/ Create(MaxTimeIO, CreateArgs)
    \/ Delete(MaxTimeIO)
    \/ AddDependency(MaxTimeIO)
    \/ ExportAll(MaxTimeIO)
    \/ NewProcess(MaxTimeIO)
    \/ FileSystem

SpecExport == Init /\ [][NextExport]_vars

\* the store under create / delete / import
NextImport ==
    \/ Create(MaxTimeIO, CreateArgs)
    \/ Delete(MaxTimeIO)
    \/ ImportJson(ImportFiles)

SpecImport == Init /\ [][NextImport]_vars

\* records with every field given, edges, and updates of every kind
NextFields ==
    \/ Create(MaxTimeIO, CreateArgs)
    \/ UpdateFields(MaxTimeIO)
    \/ AddDependency(MaxTimeIO)

SpecFields == Init /\ [][NextFields]_vars

\* the store with writes that fail: create / delete / import, save() and
\* load() called from outside, and the file system changing its answer
NextFail ==
    \/ Create(MaxTimeIO, PlainArgs)
    \/ Delete(MaxTimeIO)
    \/ ImportJson(FewFiles)
    \/ SaveCall
    \/ LoadCall
    \/ FileSystem

SpecFail == Init /\ [][NextFail]_vars

\* the code of the i-th add_lemma call
Nth(i) == Code(InitialCounter + i - 1)

\* the store after n add_lemma calls at the times 1..n
Added(n) ==
    [c \in {Nth(i) : i \in 1..n} |->
        NewLemma(CHOOSE kw \in PlainArgs : TRUE, CHOOSE i \in 1..n : Nth(i) = c)]

\* the store l after add_dependency(Nth(e[1]), Nth(e[2])) for each pair e of E,
\* in the order of the pairs, at the times t+1, t+2, ...
RECURSIVE WithEdges(_, _, _)
WithEdges(l, E, t) ==
    IF E = {} THEN l
    ELSE LET e == CHOOSE e \in E :
                     \A f \in E : e[1] < f[1] \/ (e[1] = f[1] /\ e[2] <= f[2])
         IN  WithEdges(WithEdge(l, Nth(e[1]), Nth(e[2]), t + 1), E \ {e}, t + 1)

\* the sets of at most MaxEdges edges between n records, self-loops and
\* cycles among them
EdgeSets(n) == {E \in SUBSET ((1..n) \X (1..n)) : Cardinality(E) <= MaxEdges}

\* a process that has just started on the data file another process left
\* after n add_lemma calls and the add_dependency calls for the edges E
InitWalk ==
    \E n \in 1..MaxNodes : \E E \in EdgeSets(n) :
        /\ lemmas = WithEdges(Added(n), E, n)
        /\ code_counter = InitialCounter + n
        /\ metadata = [created |-> 0, last_modified |-> n, version |-> Version]
        /\ disk = JsonFile(SaveDoc(metadata, code_counter, lemmas))
        /\ now = n + Cardinality(E) + 1
        /\ last = [op |-> "__init__", ret |-> TRUE]
        /\ issued = [i \in 1..n |-> Nth(i)]
        /\ deleted = {}
        /\ retracted = {}
        /\ restarts = {now}
        /\ io = "ok"
        /\ walk = NoWalk

\* get_dependency_chain calls, statement by statement, on the stores of
\* InitWalk; the interpreter keeps executing a loop it is in
NextWalk ==
    \/ ChainBegin
    \/ ChainIterate
    \/ ChainReturn

SpecWalk ==
    InitWalk /\ [][NextWalk]_vars /\ WF_vars(ChainIterate) /\ WF_vars(ChainReturn)

\* the store under create / delete and imports of MergeFiles
NextMerge ==
    \/ Create(MaxTimeIO, PlainArgs)
    \/ Delete(MaxTimeIO)
    \/ ImportJson(MergeFiles)

SpecMerge == Init /\ [][NextMerge]_vars

\* records with and without proof, tags, category and notes, and searches
NextSearch ==
    \/ Create(MaxTimeIO, CreateArgs)
    \/ Delete(MaxTimeIO)
    \/ SearchCall

SpecSearch == Init /\ [][NextSearch]_vars

\* records with and without proof, tags, notes and edges, and their exports
NextRender ==
    \/ Create(MaxTimeIO, CreateArgs)
    \/ AddDependency(MaxTimeIO)
    \/ ExportLemma

SpecRender == Init /\ [][NextRender]_vars

----------------------------------------------------------------------------
(* Properties of the store under Spec *)

Deps(l, c) == Elems(l[c].dependencies)

\* C1: referential integrity. In every state reached from the empty store by
\* add_lemma, update_lemma, delete_lemma, add_dependency and remove_dependency
\* calls, successful or failing, every code listed in a record's dependencies
\* is a key of the store.
C1_ReferentialIntegrity ==
    \A c \in DOMAIN lemmas : Deps(lemmas, c) \subseteq DOMAIN lemmas

\* delete_lemma has just removed a record another record still present depended on
C1_Witness ==
    /\ last.op = "delete_lemma" /\ last.ret = TRUE
    /\ \E e \in retracted : e[1] \in DOMAIN lemmas /\ e[2] \notin DOMAIN lemmas

\* the number in a code add_lemma returned
Suffix(code) == ParseInt(Slice1(code)).val

\* C2: the codes add_lemma returns are pairwise distinct and strictly
\* increasing in their numeric suffix, whatever delete, update and dependency
\* calls come in between, and the code add_lemma returns is never the code of
\* a record deleted before.
C2_FreshIncreasingCodes ==
    /\ \A i, j \in 1..Len(issued) :
          i < j => issued[i] # issued[j] /\ Suffix(issued[i]) < Suffix(issued[j])
    /\ last.op = "add_lemma" => last.ret \notin deleted

\* add_lemma has just returned a code after an earlier record was deleted
C2_Witness ==
    /\ last.op = "add_lemma"
    /\ Len(issued) >= 2
    /\ deleted # {}
    /\ deleted \subseteq Elems(issued)

\* C3: once delete_lemma(X) succeeded, X is in no remaining record's
\* dependencies, and get_dependency_chain(Y) never contains X, for any Y and
\* after any further calls.
C3_DeletedNeverSurfaces ==
    \A x \in deleted :
        /\ \A c \in DOMAIN lemmas : x \notin Deps(lemmas, c)
        /\ \A y \in CodeArgs :
              /\ ~get_dependency_chain(y).raised
              /\ x \notin Elems(get_dependency_chain(y).value)

\* a record lost its edge to a deleted record, a further record was created
\* since, and the chain of the first is empty
C3_Witness ==
    /\ last.op = "add_lemma"
    /\ \E e \in retracted :
          /\ e[1] \in DOMAIN lemmas
          /\ e[2] \in deleted
          /\ lemmas[last.ret].created > lemmas[e[1]].modified
          /\ get_dependency_chain(e[1]).value = << >>

\* the codes the edges lead to from the codes in S
Succ(l, S) == UNION {Deps(l, c) : c \in S \cap DOMAIN l}

\* the least set that holds S and is closed under the edges
RECURSIVE Closure(_, _)
Closure(l, S) == IF Succ(l, S) \subseteq S THEN S ELSE Closure(l, S \cup Succ(l, S))

\* the codes reached from a by one or more edges
ReachableFrom(l, a) == Closure(l, Succ(l, {a}))

\* a list of codes in strictly increasing string order (so without duplicates)
StrictlySorted(s) == \A i, j \in 1..Len(s) : i < j => StrLess(s[i], s[j])

\* C4: for every graph the calls can build, cycles included, and every code A
\* of the store, get_dependency_chain(A) lists exactly the codes other than A
\* reached from A by one or more edges, without duplicates and in string
\* order; for a code that is not in the store it is the empty list.
C4_ChainIsTransitiveClosure ==
    \A a \in CodeArgs :
        LET r == get_dependency_chain(a)
        IN  /\ ~r.raised
            /\ a \notin DOMAIN lemmas => r.value = << >>
            /\ a \in DOMAIN lemmas =>
                  /\ Elems(r.value) = ReachableFrom(lemmas, a) \ {a}
                  /\ StrictlySorted(r.value)

\* A -> B and B -> C without an edge A -> C, and C is in the chain of A
C4_Witness ==
    \E a, b, c \in DOMAIN lemmas :
        /\ a # b /\ b # c /\ a # c
        /\ b \in Deps(lemmas, a)
        /\ c \in Deps(lemmas, b)
        /\ c \notin Deps(lemmas, a)
        /\ get_dependency_chain(a).value = <<b, c>> \/ get_dependency_chain(a).value = <<c, b>>

\* C5: get_dependency_chain(X) never contains X, also when X lies on a cycle
\* or depends on itself.
C5_ChainExcludesOrigin ==
    \A x \in CodeArgs : x \notin Elems(get_dependency_chain(x).value)

\* X lies on a cycle through another record, and its chain is just that record
C5_Witness ==
    \E x, y \in DOMAIN lemmas :
        /\ x # y
        /\ y \in Deps(lemmas, x)
        /\ x \in Deps(lemmas, y)
        /\ get_dependency_chain(x).value = <<y>>

\* C6: B is in get_dependents(A) exactly when A is in the dependencies of the
\* record B: one hop, never through an intermediate record.
C6_DependentsAreDirect ==
    \A a \in CodeArgs, b \in CodeArgs :
        b \in Elems(get_dependents(a)) <=> (b \in DOMAIN lemmas /\ a \in Deps(lemmas, b))

\* C -> B -> A without an edge C -> A: B is a dependent of A, C is not
C6_Witness ==
    \E a, b, c \in DOMAIN lemmas :
        /\ a # b /\ b # c /\ a # c
        /\ a \in Deps(lemmas, b)
        /\ b \in Deps(lemmas, c)
        /\ a \notin Deps(lemmas, c)
        /\ get_dependents(a) = <<b>>

\* C7: add_dependency(A, B) with A or B not in the store returns False and
\* leaves the records, the counter, the metadata and the data file as they
\* were; it returns True only when both are in the store.
C7_AddDependencyChecksBoth ==
    [][\A a \in CodeArgs, b \in CodeArgs :
          (last'.op = "add_dependency" /\ add_dependency(a, b)) =>
              /\ (a \notin DOMAIN lemmas \/ b \notin DOMAIN lemmas) =>
                    /\ last'.ret = FALSE
                    /\ UNCHANGED <<lemmas, code_counter, metadata, disk>>
              /\ last'.ret = TRUE => (a \in DOMAIN lemmas /\ b \in DOMAIN lemmas)]_vars

\* add_dependency has just failed on a store that holds records
C7_Witness ==
    /\ last.op = "add_dependency" /\ last.ret = FALSE
    /\ DOMAIN lemmas # {}

----------------------------------------------------------------------------
(* Properties of export, persistence and import *)

\* the last call was export_all(format='json') and it returned its document
JsonExported == last.op = "export_all" /\ last.format = "json" /\ ~last.raised

\* the records of the store come back from the exported document, by load()
\* in a new instance and by import_from_json into a new instance; when the
\* document was written over the data file, by a new process as well
C8_RecordsComeBack ==
    JsonExported =>
        /\ Load(Fresh(now + 1), JsonFile(last.ret)).st.lemmas = lemmas
        /\ Import(Fresh(now + 1), JsonFile(last.ret)).st.lemmas = lemmas
        /\ last.filename = DataFile => Load(Fresh(now + 1), disk).st.lemmas = lemmas

\* C8: round trip. After any create / delete / add_dependency calls, the
\* document export_all(format='json') returns, reloaded into a new instance
\* by load() or by import_from_json, gives the same records and a counter
\* that is not lower than the counter of the exporting store.
C8_ExportRoundTrip ==
    JsonExported =>
        /\ C8_RecordsComeBack
        /\ Load(Fresh(now + 1), JsonFile(last.ret)).st.code_counter >= code_counter
        /\ Import(Fresh(now + 1), JsonFile(last.ret)).st.code_counter >= code_counter

\* a new process on a data file that export_all has overwritten starts from
\* the initial counter: add_lemma returns a code that was issued before
C8_ReissuedAfterExport ==
    /\ last.op = "add_lemma"
    /\ \E i \in 1..(Len(issued) - 1) : issued[i] = last.ret

\* the calls that change the store when they succeed
MutatingOps ==
    {"add_lemma", "update_lemma", "delete_lemma", "add_dependency", "remove_dependency",
     "import_from_json"}

\* the last call was a mutating one and succeeded
Mutated == last.op = "add_lemma" \/ (last.op \in MutatingOps /\ last.ret = TRUE)

\* C9: when a mutating call has returned successfully (the write succeeding),
\* the lemmas and the code_counter of the data file are those in memory, a
\* new instance loading the data file holds the same records and counter,
\* and no code is returned twice by add_lemma, restarts included.
C9_PersistedBeforeReturn ==
    /\ Mutated =>
          /\ disk.exists /\ disk.json
          /\ "lemmas" \in DOMAIN disk.data /\ disk.data.lemmas = lemmas
          /\ "code_counter" \in DOMAIN disk.data /\ disk.data.code_counter = code_counter
          /\ Load(Fresh(now + 1), disk).st.lemmas = lemmas
          /\ Load(Fresh(now + 1), disk).st.code_counter = code_counter
    /\ \A i, j \in 1..Len(issued) : i < j => issued[i] # issued[j]

\* add_lemma has just returned a code in a process started after earlier
\* codes were returned
C9_Witness ==
    /\ last.op = "add_lemma"
    /\ \E t \in restarts, c \in Elems(issued) \cap DOMAIN lemmas :
          lemmas[c].created < t /\ t < lemmas[last.ret].created

\* the lemmas of a file, as import_from_json reads them
FileLemmas(f) == IF f.exists /\ f.json THEN Get(f.data, "lemmas", << >>) ELSE << >>

\* C10: under create / delete / import, import_from_json merges only the
\* lemmas whose codes are not in the store: each record of the store is
\* unchanged by it, the counter does not decrease and ends above the number of
\* every code of the file whose suffix int() reads; and the code the next
\* add_lemma returns is never a key of the store.
C10_ImportKeepsAndAdvances ==
    /\ [](NextCode(code_counter) \notin DOMAIN lemmas)
    /\ [][\A f \in ImportFiles :
             (last'.op = "import_from_json" /\ import_from_json(f)) =>
                 /\ DOMAIN lemmas' = DOMAIN lemmas \cup DOMAIN FileLemmas(f)
                 /\ \A c \in DOMAIN lemmas : lemmas'[c] = lemmas[c]
                 /\ \A c \in DOMAIN FileLemmas(f) \ DOMAIN lemmas : lemmas'[c] = FileLemmas(f)[c]
                 /\ code_counter' >= code_counter
                 /\ \A c \in DOMAIN FileLemmas(f) :
                       ParseInt(Slice1(c)).ok => code_counter' > Suffix(c)]_vars

\* add_lemma has just returned a code on a store that holds an imported
\* record with a number, the import having advanced the counter
C10_Witness ==
    /\ last.op = "add_lemma"
    /\ code_counter > InitialCounter + Len(issued)
    /\ \E c \in DOMAIN lemmas \ Elems(issued) :
          ParseInt(Slice1(c)).ok /\ Suffix(c) < Suffix(last.ret)

\* the list s without the entries equal to x, the others in their order
Without(s, x) == SelectSeq(s, LAMBDA e : e # x)

\* the record rec but for its dependencies
SameButDependencies(rec, rec2) ==
    /\ DOMAIN rec = DOMAIN rec2
    /\ \A f \in DOMAIN rec \ {"dependencies"} : rec[f] = rec2[f]

\* C11: remove_dependency(A, B) returns False and leaves the store and the
\* data file unchanged when A is not a key or B is not in A's dependencies;
\* otherwise it returns True, A's dependencies lose B and keep every other
\* entry in order, every other field of A and every other record is unchanged,
\* the counter is unchanged, and the data file holds the store afterwards.
C11_RemoveDependencyFrame ==
    [][\A a \in CodeArgs, b \in CodeArgs :
          (last'.op = "remove_dependency" /\ remove_dependency(a, b)) =>
              IF a \in DOMAIN lemmas /\ b \in Deps(lemmas, a)
              THEN /\ last'.ret = TRUE
                   /\ DOMAIN lemmas' = DOMAIN lemmas
                   /\ lemmas'[a].dependencies = Without(lemmas[a].dependencies, b)
                   /\ SameButDependencies(lemmas'[a], lemmas[a])
                   /\ \A c \in DOMAIN lemmas \ {a} : lemmas'[c] = lemmas[c]
                   /\ code_counter' = code_counter
                   /\ disk'.exists /\ disk'.json
                   /\ disk'.data.lemmas = lemmas'
                   /\ disk'.data.code_counter = code_counter'
              ELSE /\ last'.ret = FALSE
                   /\ UNCHANGED <<lemmas, code_counter, metadata, disk>>]_vars

\* remove_dependency has just removed one of two edges of the only record
\* that ever had edges: the other edge is still there
C11_Witness ==
    /\ last.op = "remove_dependency" /\ last.ret = TRUE
    /\ deleted = {}
    /\ \E a \in DOMAIN lemmas :
          /\ lemmas[a].dependencies # << >>
          /\ \A c \in DOMAIN lemmas \ {a} : lemmas[c].modified = lemmas[c].created

\* the fields of kw that update_lemma writes
Submitted(kw) == AllowedFields \cap DOMAIN kw

\* C12: update_lemma(code, **kw) on a stored code returns True, gives each
\* field of kw that is one of statement, proof, tags, category, notes the
\* submitted value, and leaves every other field of the record but modified
\* (dependencies and created among them), the fields the record has, the keys
\* of the store, the counter and every other record unchanged; a name of kw
\* outside the five is ignored. On a code that is not stored it returns False
\* and changes nothing.
C12_UpdateFrame ==
    [][\A code \in CodeArgs, kw \in FieldArgs :
          (last'.op = "update_lemma" /\ update_lemma(code, kw)) =>
              IF code \in DOMAIN lemmas
              THEN /\ last'.ret = TRUE
                   /\ DOMAIN lemmas' = DOMAIN lemmas
                   /\ DOMAIN lemmas'[code] = DOMAIN lemmas[code]
                   /\ \A f \in Submitted(kw) : lemmas'[code][f] = kw[f]
                   /\ \A f \in DOMAIN lemmas[code] \ (Submitted(kw) \cup {"modified"}) :
                          lemmas'[code][f] = lemmas[code][f]
                   /\ \A c \in DOMAIN lemmas \ {code} : lemmas'[c] = lemmas[c]
                   /\ code_counter' = code_counter
              ELSE /\ last'.ret = FALSE
                   /\ UNCHANGED <<lemmas, code_counter, metadata, disk>>]_vars

\* update_lemma has just been given notes together with an empty list of
\* dependencies and a creation time, on a record with an edge: the notes are
\* the submitted ones, the edge and the creation time are the record's own
C12_Witness ==
    /\ last.op = "update_lemma" /\ last.ret = TRUE
    /\ \E c \in DOMAIN lemmas, kw \in FieldArgs :
          /\ {"notes", "dependencies", "created"} \subseteq DOMAIN kw
          /\ lemmas[c].modified = now
          /\ lemmas[c].notes = kw.notes
          /\ lemmas[c].dependencies # kw.dependencies
          /\ lemmas[c].created # kw.created

\* a file that cannot be read as a JSON document: missing, unreadable, malformed
Unreadable(f) == ~f.exists \/ ~f.json

\* C13: save() whose write fails, and load() and import_from_json whose file
\* is missing, unreadable or malformed, return False (the exception is caught
\* inside the call), and whenever one of the three returns False the lemmas,
\* the counter and the metadata in memory are those before the call.
C13_FailureIsContained ==
    [][/\ (last'.op = "save" /\ save_call) =>
              /\ io # "ok" => last'.ret = FALSE
              /\ last'.ret = FALSE => UNCHANGED <<lemmas, code_counter, metadata>>
       /\ (last'.op = "load" /\ load) =>
              /\ Unreadable(disk) => last'.ret = FALSE
              /\ last'.ret = FALSE => UNCHANGED <<lemmas, code_counter, metadata>>
       /\ \A f \in FewFiles :
              (last'.op = "import_from_json" /\ import_from_json(f)) =>
                  /\ Unreadable(f) => last'.ret = FALSE
                  /\ last'.ret = FALSE => UNCHANGED <<lemmas, code_counter, metadata>>]_vars

\* load() has just failed on a data file a failed dump left behind, with
\* records in memory
C13_Witness ==
    /\ last.op = "load" /\ last.ret = FALSE
    /\ disk = Garbage
    /\ lemmas # << >>

\* s lists no entry twice
NoRepeat(s) == \A i, j \in 1..Len(s) : i # j => s[i] # s[j]

\* C14: the while loop of get_dependency_chain ends on every store and start
\* code, cyclic stores and self-loops included: no code has its dependencies
\* queued twice, so at most as many iterations queue anything as there are
\* records, and a call that entered the loop leaves it and returns the chain.
C14_WalkTerminates ==
    /\ [](/\ NoRepeat(walk.expanded)
          /\ Elems(walk.expanded) \subseteq DOMAIN lemmas
          /\ walk.pc = "done" => walk.result = get_dependency_chain(walk.code).value)
    /\ (walk.pc = "loop") ~> (walk.pc = "done")

\* a call has returned after its loop met the start code again on a cycle
\* through another record
C14_Witness ==
    /\ walk.pc = "done"
    /\ Len(walk.expanded) >= 2
    /\ walk.code \notin Elems(walk.result)
    /\ \E c \in DOMAIN lemmas \ {walk.code} :
          /\ c \in Deps(lemmas, walk.code)
          /\ walk.code \in Deps(lemmas, c)

\* C15: with import_from_json among the calls, every code in a record's
\* dependencies (merged records included) is a key of the store, so
\* get_dependency_chain of a stored code returns without KeyError, and a code
\* delete_lemma removed is in no record's dependencies afterwards.
C15_ImportKeepsIntegrity ==
    /\ \A c \in DOMAIN lemmas :
          /\ Deps(lemmas, c) \subseteq DOMAIN lemmas
          /\ ~get_dependency_chain(c).raised
    /\ (last.op = "delete_lemma" /\ last.ret = TRUE) =>
          \A x \in deleted \ DOMAIN lemmas, c \in DOMAIN lemmas : x \notin Deps(lemmas, c)

\* the call that makes the step read the clock and left that reading in the
\* modified field of record c, whose created field it did not touch
Stamps(c) ==
    /\ now' > now
    /\ lemmas'[c].modified = now'
    /\ lemmas'[c].created = lemmas[c].created

\* C16: each update_lemma that succeeds, each add_dependency that appends an
\* edge and each remove_dependency that succeeds leaves the time of the call
\* in the modified field of the record it changed, and leaves created alone.
C16_MutationsStampModified ==
    [][/\ \A code \in CodeArgs, kw \in UpdateArgs :
              (last'.op = "update_lemma" /\ update_lemma(code, kw) /\ last'.ret = TRUE) =>
                  Stamps(code)
       /\ \A a \in CodeArgs, b \in CodeArgs :
              /\ (last'.op = "add_dependency" /\ add_dependency(a, b)
                     /\ Inserts(lemmas, a, b)) => Stamps(a)
              /\ (last'.op = "remove_dependency" /\ remove_dependency(a, b)
                     /\ last'.ret = TRUE) => Stamps(a)]_vars

\* C17: add_dependency(A, B) with the edge already there returns True and
\* leaves the store, the counter, the metadata, the data file and the clock
\* as they were (A's dependencies and modified among them), and in every
\* state of Spec no record lists a code twice in its dependencies.
C17_AddDependencyIdempotent ==
    /\ [](\A c \in DOMAIN lemmas : NoRepeat(lemmas[c].dependencies))
    /\ [][\A a \in CodeArgs, b \in CodeArgs :
             (/\ last'.op = "add_dependency" /\ add_dependency(a, b)
              /\ a \in DOMAIN lemmas /\ b \in Deps(lemmas, a)) =>
                 /\ last'.ret = TRUE
                 /\ UNCHANGED <<lemmas, code_counter, metadata, disk, now>>]_vars

\* add_dependency has just returned True without appending: every record
\* stamped at the last reading of the clock has no edge, so the edges there
\* are were appended before
C17_Witness ==
    /\ last.op = "add_dependency" /\ last.ret = TRUE
    /\ \E c \in DOMAIN lemmas : lemmas[c].dependencies # << >>
    /\ \A c \in DOMAIN lemmas : lemmas[c].modified = now => lemmas[c].dependencies = << >>

\* record c of the store l lists its own code
SelfLoop(l, c) == c \in DOMAIN l /\ c \in Deps(l, c)

\* C18 as stated: in every state reached by add_lemma, delete_lemma,
\* add_dependency and remove_dependency calls no record lists its own code
\* in its dependencies.
C18_NoSelfLoop == \A c \in DOMAIN lemmas : ~SelfLoop(lemmas, c)

\* C18, amended: a record comes to list its own code in its dependencies
\* only by the call add_dependency(c, c), which is accepted like any edge
\* between stored codes; add_lemma, update_lemma, delete_lemma,
\* remove_dependency and add_dependency between two different codes never
\* make a record list itself.
C18_SelfLoopOnlyByRequest ==
    [][\A c \in DOMAIN lemmas' :
          (SelfLoop(lemmas', c) /\ ~SelfLoop(lemmas, c)) =>
              /\ last'.op = "add_dependency" /\ last'.ret = TRUE
              /\ add_dependency(c, c)]_vars

\* of two records the first was made to depend on the second and the second
\* on itself: the second lists itself, the first does not
C18_Witness ==
    /\ last.op = "add_dependency" /\ last.ret = TRUE
    /\ \E a \in DOMAIN lemmas, b \in DOMAIN lemmas :
          /\ a # b
          /\ b \in Deps(lemmas, a)
          /\ ~SelfLoop(lemmas, a)
          /\ SelfLoop(lemmas, b)

\* C19: delete_lemma(X) on a stored X returns True and removes exactly the
\* key X: every other record is still there with every field as before but
\* for its dependencies, which lose X and keep their other entries in order;
\* the counter is unchanged. On a code that is not stored it returns False
\* and changes nothing.
C19_DeleteFrame ==
    [][\A x \in CodeArgs :
          (last'.op = "delete_lemma" /\ delete_lemma(x)) =>
              IF x \in DOMAIN lemmas
              THEN /\ last'.ret = TRUE
                   /\ DOMAIN lemmas' = DOMAIN lemmas \ {x}
                   /\ \A c \in DOMAIN lemmas \ {x} :
                          /\ SameButDependencies(lemmas'[c], lemmas[c])
                          /\ lemmas'[c].dependencies = Without(lemmas[c].dependencies, x)
                   /\ code_counter' = code_counter
              ELSE /\ last'.ret = FALSE
                   /\ UNCHANGED <<lemmas, code_counter, metadata, disk>>]_vars

\* delete_lemma has just removed a record that a record still there listed
\* next to another one: that one is still listed, the time of modification
\* is the earlier one
C19_Witness ==
    /\ last.op = "delete_lemma" /\ last.ret = TRUE
    /\ \E e \in retracted :
          /\ e[1] \in DOMAIN lemmas
          /\ e[2] \notin DOMAIN lemmas
          /\ lemmas[e[1]].dependencies # << >>
          /\ lemmas[e[1]].modified < now

\* the keyword arguments a without the query
NoQuery(a) == [k \in DOMAIN a \ {"query"} |-> a[k]]

\* the last call was search in regex mode with a pattern that does not compile
InvalidPatternSearch ==
    /\ last.op = "search"
    /\ Given(last.args, "regex") /\ last.args.regex
    /\ Given(last.args, "query") /\ last.args.query # << >>
    /\ ~Compiles(last.args.query)

\* C20: search in regex mode with a pattern that does not compile returns
\* (re.error is caught) exactly the records that pass the category, has_proof
\* and tags filters: what the same search without query returns.
C20_InvalidPatternSkipsFilter ==
    InvalidPatternSearch =>
        /\ last.ret = Search(lemmas, NoQuery(last.args))
        /\ DOMAIN last.ret = {c \in DOMAIN lemmas : /\ CategoryPasses(lemmas[c], last.args)
                                                    /\ ProofPasses(lemmas[c], last.args)
                                                    /\ TagsPass(lemmas[c], last.args)}
        /\ \A c \in DOMAIN last.ret : last.ret[c] = lemmas[c]

\* a search with a pattern that does not compile and a has_proof filter has
\* returned some records of the store and not others
C20_Witness ==
    /\ InvalidPatternSearch
    /\ Given(last.args, "has_proof")
    /\ DOMAIN last.ret # {}
    /\ DOMAIN last.ret # DOMAIN lemmas

\* the fields an exporter renders on condition
OptionalFields == {"proof", "tags", "notes", "dependencies"}

\* the field f of the record rec is not empty
Populated(rec, f) == IF f \in {"proof", "notes"} THEN rec[f] # "" ELSE rec[f] # << >>

\* the output out has an entry for the field f
HasEntry(out, f) == \E i \in 1..Len(out) : out[i].field = f

\* the last call rendered a stored record in the format fmt
RenderedAs(fmt) == last.op = "export_lemma" /\ last.found /\ last.format = fmt

\* the output of the last call has an entry for exactly the optional fields
\* of the record that are not empty
EntriesMatchFields ==
    \A f \in OptionalFields : HasEntry(last.ret, f) <=> Populated(lemmas[last.code], f)

\* C21: for each of the formats text, markdown and latex and every record,
\* the output of export_lemma has an entry for each of proof, tags, notes
\* and dependencies exactly when that field of the record is not empty.
C21_PopulatedFieldsAppear ==
    \A fmt \in {"text", "markdown", "latex"} : RenderedAs(fmt) => EntriesMatchFields

\* what does hold: text and markdown render exactly the populated fields,
\* latex exactly the populated ones among proof, tags and notes
C21_AllButLatexDependencies ==
    /\ \A fmt \in {"text", "markdown"} : RenderedAs(fmt) => EntriesMatchFields
    /\ RenderedAs("latex") =>
          /\ \A f \in OptionalFields \ {"dependencies"} :
                HasEntry(last.ret, f) <=> Populated(lemmas[last.code], f)
          /\ ~HasEntry(last.ret, "dependencies")

====
